---- MODULE Spec2Model ----
(***************************************************************************)
(* Model of ensto_bridge.py: the poll scheduler (EnstoBridge.run), the     *)
(* device session (EnstoBridge.process_device), the credential store       *)
(* (load_device_data / save_device_data) and the hex encoding of the       *)
(* factory id.  The BLE transport, the storage file and the MQTT client    *)
(* are the environment: each call to them returns or raises, chosen        *)
(* nondeterministically.                                                    *)
(***************************************************************************)
EXTENDS Integers, Sequences, FiniteSets, TLC

VARIABLES
    pc,               \* position of the single cooperative flow
    idx,              \* index in DEVICES of the device of the for loop
    device,           \* address of the device found by the scan
    conns,            \* addresses a BleakClient holds a connection to
    is_connected,     \* client.is_connected of the session's client
    file,             \* content of STORAGE_FILE
    stored_data,      \* local: the dict returned by load_device_data
    factory_id_bytes, \* local: the credential in hand, or NoneBytes
    result,           \* outcome of the last session, of this one once set
    exc,              \* an exception is propagating out of the with block
    ops,              \* calls made to the collaborators in this session
    started,          \* identifiers whose session was started in this cycle
    persisted,        \* per address, the last credential saved by a session
    sessionFile,      \* content of STORAGE_FILE when the session started
    rt_data,          \* data: the telemetry frame read from the device
    parsed_data,      \* the Reading decoded from rt_data
    layout            \* the frame layout of the firmware that sent rt_data

vars == <<pc, idx, device, conns, is_connected, file, stored_data, factory_id_bytes,
          result, exc, ops, started, persisted, sessionFile,
          rt_data, parsed_data, layout>>

\* the telemetry read of a session
telemetry == <<rt_data, parsed_data, layout>>

-----------------------------------------------------------------------------
(* Bounds *)

\* longest all-zero value the factory-id characteristic returns, in bytes
MaxZeroLen == 2

-----------------------------------------------------------------------------
(* Configuration: config.json *)

A1 == <<"A", ":", "1">>
A2 == <<"A", ":", "2">>
ECO == <<"E", "C", "O">>

\* addresses of the thermostats in radio range
Addrs == {A1, A2}

\* config["devices"]: one device given by address, one given by name
DEVICES == <<A1, ECO>>

-----------------------------------------------------------------------------
(* Bytes and their hex encoding *)

\* what a device outside pairing mode returns: zeros, of any length
ZeroIds == {[i \in 1..n |-> 0] : n \in 0..MaxZeroLen}

\* factory ids of the thermostats in pairing mode
FactoryIds == {<<171>>, <<0, 28>>}

\* values a read of FACTORY_RESET_ID_UUID can return
CredValues == ZeroIds \cup FactoryIds

\* Python's None for factory_id_bytes
NoneBytes == <<-1>>

\* variant: the value is compared with a zero-filled buffer, which the empty
\* value is not
AllZero_nonempty(b) == Len(b) > 0 /\ \A i \in 1..Len(b) : b[i] = 0

\* all(b == 0 for b in factory_id_bytes)
AllZero(b) == \A i \in 1..Len(b) : b[i] = 0

\* truth value of a bytes-or-None object
Truthy(b) == b # NoneBytes /\ Len(b) > 0

HexLower == <<"0", "1", "2", "3", "4", "5", "6", "7", "8", "9", "a", "b", "c", "d", "e", "f">>
HexUpper == <<"0", "1", "2", "3", "4", "5", "6", "7", "8", "9", "A", "B", "C", "D", "E", "F">>

\* bytes.hex(): two lower-case digits per byte, high nibble first
RECURSIVE Hex(_)
Hex(b) ==
    IF b = <<>> THEN <<>>
    ELSE <<HexLower[(b[1] \div 16) + 1], HexLower[(b[1] % 16) + 1]>> \o Hex(Tail(b))

IsHexDigit(c) == \E i \in 1..16 : HexLower[i] = c \/ HexUpper[i] = c
HexVal(c) == (CHOOSE i \in 1..16 : HexLower[i] = c \/ HexUpper[i] = c) - 1

\* bytes.fromhex() raises ValueError: odd length or a non-hex character
FromHexRaises(s) == Len(s) % 2 = 1 \/ \E i \in 1..Len(s) : ~IsHexDigit(s[i])

\* variant: the two digits of a byte are taken low nibble first
RECURSIVE FromHex_swapped(_)
FromHex_swapped(s) ==
    IF Len(s) < 2 THEN <<>>
    ELSE <<HexVal(s[2]) * 16 + HexVal(s[1])>> \o FromHex_swapped(SubSeq(s, 3, Len(s)))

\* bytes.fromhex(): one byte per pair of digits, either case
RECURSIVE FromHex(_)
FromHex(s) ==
    IF Len(s) < 2 THEN <<>>
    ELSE <<HexVal(s[1]) * 16 + HexVal(s[2])>> \o FromHex(SubSeq(s, 3, Len(s)))

-----------------------------------------------------------------------------
(* The credential store: STORAGE_FILE *)

\* dict.get() found no key
NoEntry == <<"<absent>">>
\* a JSON value that is not a string (a number)
NumEntry == <<"<number>">>

EmptyDict == [a \in Addrs |-> NoEntry]

\* entries STORAGE_FILE may hold when the bridge starts
InitEntries == {NoEntry, <<>>, <<"0", "0">>, <<"A", "B">>, <<"z", "z">>, <<"a">>, NumEntry}

DictFile(d) == [kind |-> "dict", data |-> d]
CorruptFile == [kind |-> "corrupt", data |-> EmptyDict]
NonDictFile == [kind |-> "nondict", data |-> EmptyDict]

\* load_device_data(): the parsed document, {} when the file is missing,
\* unreadable (io_ok = FALSE) or not valid JSON
load_device_data(f, io_ok) ==
    IF io_ok /\ f.kind = "dict" THEN f.data ELSE EmptyDict

\* json.load returned a document that is not an object: .get raises
LoadNotDict(f, io_ok) == io_ok /\ f.kind = "nondict"

\* save_device_data(data): "ok" rewrites the document; "open_failed" leaves
\* the file as it was; "write_failed" leaves it truncated by open(.., 'w')
save_device_data(f, data, outcome) ==
    CASE outcome = "ok" -> DictFile(data)
      [] outcome = "open_failed" -> f
      [] outcome = "write_failed" -> CorruptFile

SaveOutcomes == {"ok", "open_failed", "write_failed"}

-----------------------------------------------------------------------------
(* The payload codec: EnstoBridge.parse_real_time_data *)

\* longest telemetry frame, in bytes
MaxFrameLen == 20

\* if len(data) < 10: return {}
MinFrameLen == 10
\* relay state: byte 13
RelayIndex == 13
\* raw value of 5 degrees
TargetMinRaw == 13038

\* int.from_bytes(b, byteorder='little')
RECURSIVE from_bytes(_)
from_bytes(b) == IF b = <<>> THEN 0 ELSE b[1] + 256 * from_bytes(Tail(b))

\* int.from_bytes(b, byteorder='little', signed=True)
from_bytes_signed(b) ==
    LET u == from_bytes(b)
        half == 2 ^ (8 * Len(b) - 1)
    IN  IF u >= half THEN u - 2 * half ELSE u

\* data[lo:hi]
Slice(b, lo, hi) == SubSeq(b, lo + 1, IF hi < Len(b) THEN hi ELSE Len(b))

\* the integer nearest to n / d, a tie going to the even one: round()
RoundHalfEven(n, d) ==
    LET q == n \div d
        r == n % d
    IN  IF 2 * r > d \/ (2 * r = d /\ q % 2 = 1) THEN q + 1 ELSE q

\* round(5.0 + (raw_target - 13038) * (30.0 / 115160.0), 1), in tenths of a
\* degree: 50 + (raw - 13038) * 300 / 115160, and 300 / 115160 = 15 / 5758
TargetTenths(raw_target) == 50 + RoundHalfEven((raw_target - TargetMinRaw) * 15, 5758)

AllFields == {"target_temperature", "room_temperature", "floor_temperature", "relay_active"}

\* a Reading: the keys of the dict and, in tenths of a degree, their values;
\* raised: the call ended with an exception instead of a dict
Reading(fields, target, room, floor, relay, raised) ==
    [fields |-> fields, target_temperature |-> target, room_temperature |-> room,
     floor_temperature |-> floor, relay_active |-> relay, raised |-> raised]

\* {}
EmptyReading == Reading({}, 0, 0, 0, FALSE, FALSE)
\* IndexError
RaisedReading == Reading({}, 0, 0, 0, FALSE, TRUE)
\* parse_real_time_data was not called
NotParsed == Reading({"<not parsed>"}, 0, 0, 0, FALSE, FALSE)

\* variant: data[13] is read without the length check
parse_real_time_data_unguarded(d) ==
    IF Len(d) < MinFrameLen THEN EmptyReading
    ELSE IF Len(d) <= RelayIndex THEN RaisedReading
    ELSE Reading(AllFields,
                 TargetTenths(from_bytes(Slice(d, 0, 4))),
                 from_bytes_signed(Slice(d, 4, 6)),
                 from_bytes_signed(Slice(d, 6, 8)),
                 d[RelayIndex + 1] # 0,
                 FALSE)

\* variant: the room and floor temperatures are decoded as unsigned
parse_real_time_data_unsigned(d) ==
    IF Len(d) < MinFrameLen THEN EmptyReading
    ELSE Reading(AllFields,
                 TargetTenths(from_bytes(Slice(d, 0, 4))),
                 from_bytes(Slice(d, 4, 6)),
                 from_bytes(Slice(d, 6, 8)),
                 IF Len(d) > RelayIndex THEN d[RelayIndex + 1] # 0 ELSE FALSE,
                 FALSE)

\* parse_real_time_data(data)
parse_real_time_data(d) ==
    IF Len(d) < MinFrameLen THEN EmptyReading
    ELSE Reading(AllFields,
                 TargetTenths(from_bytes(Slice(d, 0, 4))),
                 from_bytes_signed(Slice(d, 4, 6)),
                 from_bytes_signed(Slice(d, 6, 8)),
                 IF Len(d) > RelayIndex THEN d[RelayIndex + 1] # 0 ELSE FALSE,
                 FALSE)

(* Telemetry frames the device sends *)

\* n as k little-endian bytes, two's complement when negative
to_bytes(n, k) == [i \in 1..k |-> ((IF n < 0 THEN n + 256 ^ k ELSE n) \div 256 ^ (i - 1)) % 256]

\* raw target values: below, at and above the calibrated range, a tie of the
\* rounding, the sample, the largest value of three bytes and more
TargetRaws == {0, 13038, 21675, 70618, 128198, 134217727}
RoomRaws == {215, -50, -32768}
FloorRaws == {198, 120, -1, 32767}
RelayBytes == {0, 1, 255}

\* a frame of MaxFrameLen bytes with the fields at offsets 0, 4, 6 and 13
FrameOf(raw, room, floor, r) ==
    to_bytes(raw, 4) \o to_bytes(room, 2) \o to_bytes(floor, 2)
      \o [i \in 1..5 |-> 0] \o <<r>> \o [i \in 1..(MaxFrameLen - 14) |-> 0]

\* what a read of REAL_TIME_INDICATION_UUID can return: the frames cut to
\* any length
Frames ==
    {SubSeq(FrameOf(raw, room, floor, r), 1, n) :
       raw \in TargetRaws, room \in RoomRaws, floor \in FloorRaws,
       r \in RelayBytes, n \in 0..MaxFrameLen}

\* the frames of the session model: the sample, a frame without the relay
\* byte and a frame that is too short
TelemetryFrames ==
    {SubSeq(FrameOf(70618, 215, 198, 1), 1, 14),
     SubSeq(FrameOf(21675, -50, -1, 1), 1, 10),
     SubSeq(FrameOf(70618, 215, 198, 1), 1, 9)}

Layouts == {"A", "B"}

-----------------------------------------------------------------------------
(* Publisher *)

\* variant: the address is used in the topic as it is
Sanitize_keeps(mac) == mac

\* mac.replace(":", "")
Sanitize(mac) == SelectSeq(mac, LAMBDA c : c # ":")

\* f"ensto_bridge/{sanitized_mac}/state"
StateTopic(mac) == <<"ensto_bridge/">> \o Sanitize(mac) \o <<"/state">>

-----------------------------------------------------------------------------
(* Session trace *)

Op(name, ok, val) == [op |-> name, ok |-> ok, val |-> val, topic |-> <<>>]
PubOp(ok, topic) == [op |-> "publish", ok |-> ok, val |-> <<>>, topic |-> topic]

NoDevice == <<>>

-----------------------------------------------------------------------------
(* State after construction: EnstoBridge() built, run() not yet entered *)

InitFiles ==
    {DictFile(d) : d \in [Addrs -> InitEntries]} \cup {CorruptFile, NonDictFile}

Init ==
    /\ pc = "start"
    /\ idx = 1
    /\ device = NoDevice
    /\ conns = {}
    /\ is_connected = FALSE
    /\ file \in InitFiles
    /\ stored_data = EmptyDict
    /\ factory_id_bytes = NoneBytes
    /\ result = "none"
    /\ exc = FALSE
    /\ ops = <<>>
    /\ started = <<>>
    /\ persisted = [a \in Addrs |-> NoneBytes]
    /\ sessionFile = file
    /\ rt_data = <<>>
    /\ parsed_data = NotParsed
    /\ layout = "A"

-----------------------------------------------------------------------------
(* EnstoBridge.run *)

\* mqtt_client.connect / loop_start: on an exception run() returns
MqttConnect ==
    /\ pc = "start"
    /\ \E ok \in BOOLEAN : pc' = IF ok THEN "for" ELSE "exited"
    /\ UNCHANGED <<idx, device, conns, is_connected, file, stored_data,
                   factory_id_bytes, result, exc, ops, started,
                   persisted, sessionFile>>
    /\ UNCHANGED telemetry

\* for identifier in DEVICES: the next identifier, process_device is called
ForNext ==
    /\ pc = "for"
    /\ idx <= Len(DEVICES)
    /\ pc' = "find"
    /\ started' = Append(started, DEVICES[idx])
    /\ device' = NoDevice
    /\ is_connected' = FALSE
    /\ stored_data' = EmptyDict
    /\ factory_id_bytes' = NoneBytes
    /\ exc' = FALSE
    /\ ops' = <<>>
    /\ sessionFile' = file
    /\ rt_data' = <<>>
    /\ parsed_data' = NotParsed
    /\ UNCHANGED <<idx, conns, file, result, persisted, layout>>

\* the device list is exhausted: log and reach asyncio.sleep(POLL_INTERVAL)
ForDone ==
    /\ pc = "for"
    /\ idx > Len(DEVICES)
    /\ pc' = "sleep"
    /\ UNCHANGED <<idx, device, conns, is_connected, file, stored_data,
                   factory_id_bytes, result, exc, ops, started,
                   persisted, sessionFile>>
    /\ UNCHANGED telemetry

\* variant: no while True, run() returns after the first cycle's sleep
Sleep_once ==
    /\ pc = "sleep"
    /\ pc' = "exited"
    /\ UNCHANGED <<idx, device, conns, is_connected, file, stored_data,
                   factory_id_bytes, result, exc, ops, started, persisted,
                   sessionFile>>
    /\ UNCHANGED telemetry

\* asyncio.sleep(POLL_INTERVAL) returns: while True starts the next cycle
Sleep ==
    /\ pc = "sleep"
    /\ pc' = "for"
    /\ idx' = 1
    /\ started' = <<>>
    /\ UNCHANGED <<device, conns, is_connected, file, stored_data,
                   factory_id_bytes, result, exc, ops, persisted, sessionFile>>
    /\ UNCHANGED telemetry

\* process_device returned: the for loop goes on with the next identifier
Return(r) ==
    /\ pc' = "for"
    /\ idx' = idx + 1
    /\ result' = r

\* variant: no try/except around process_device, the exception ends run()
RunCatch_ends ==
    /\ pc = "except"
    /\ pc' = "exited"
    /\ UNCHANGED <<idx, device, conns, is_connected, file, stored_data,
                   factory_id_bytes, result, exc, ops, started, persisted,
                   sessionFile>>
    /\ UNCHANGED telemetry

\* except Exception in run(): log, the for loop goes on
RunCatch ==
    /\ pc = "except"
    /\ Return("exception")
    /\ exc' = FALSE
    /\ UNCHANGED <<device, conns, is_connected, file, stored_data,
                   factory_id_bytes, ops, started, persisted, sessionFile>>
    /\ UNCHANGED telemetry

-----------------------------------------------------------------------------
(* EnstoBridge.find_device and the head of process_device *)

HasColon(identifier) == \E i \in 1..Len(identifier) : identifier[i] = ":"

\* addresses a scan for the identifier can resolve to
ScanMatches(identifier) == IF HasColon(identifier) THEN {identifier} \cap Addrs ELSE Addrs

\* find_device: found, not found within the timeout (return), or the scan raises
FindDevice ==
    /\ pc = "find"
    /\ \/ \E a \in ScanMatches(DEVICES[idx]) :
            /\ device' = a
            /\ ops' = Append(ops, Op("scan", TRUE, <<>>))
            /\ pc' = "connect"
            /\ result' = "none"
            /\ UNCHANGED idx
       \/ /\ ops' = Append(ops, Op("scan", TRUE, <<>>))
          /\ Return("not_found")
          /\ UNCHANGED device
       \/ /\ ops' = Append(ops, Op("scan", FALSE, <<>>))
          /\ pc' = "except"
          /\ result' = "none"
          /\ UNCHANGED <<idx, device>>
    /\ UNCHANGED <<conns, is_connected, file, stored_data, factory_id_bytes,
                   exc, started, persisted, sessionFile>>
    /\ UNCHANGED telemetry

\* async with BleakClient(device.address, timeout=20.0): __aenter__ connects;
\* a connect error or timeout raises and the with block is not entered
Connect ==
    /\ pc = "connect"
    /\ \/ /\ ops' = Append(ops, Op("connect", TRUE, <<>>))
          /\ conns' = conns \cup {device}
          /\ is_connected' \in BOOLEAN
          /\ pc' = "check"
       \/ /\ ops' = Append(ops, Op("connect", FALSE, <<>>))
          /\ pc' = "except"
          /\ UNCHANGED <<conns, is_connected>>
    /\ UNCHANGED <<idx, device, file, stored_data, factory_id_bytes, result,
                   exc, started, persisted, sessionFile>>
    /\ UNCHANGED telemetry

\* variant: the not-connected return leaves process_device without the
\* disconnect of __aexit__
CheckConnected_no_exit ==
    /\ pc = "check"
    /\ IF is_connected
       THEN pc' = "lookup" /\ UNCHANGED <<idx, result>>
       ELSE Return("not_connected")
    /\ UNCHANGED <<device, conns, is_connected, file, stored_data,
                   factory_id_bytes, exc, ops, started, persisted,
                   sessionFile>>
    /\ UNCHANGED telemetry

\* variant: instead of returning, a session that finds the client not
\* connected waits for it to become connected
CheckConnected_waits ==
    /\ pc = "check"
    /\ IF is_connected THEN pc' = "lookup" ELSE pc' = "check"
    /\ UNCHANGED <<idx, device, conns, is_connected, file, stored_data,
                   factory_id_bytes, result, exc, ops, started, persisted,
                   sessionFile>>
    /\ UNCHANGED telemetry


\* if not client.is_connected: return; else the settle delay asyncio.sleep(5)
CheckConnected ==
    /\ pc = "check"
    /\ IF is_connected
       THEN pc' = "lookup" /\ UNCHANGED result
       ELSE pc' = "aexit" /\ result' = "not_connected"
    /\ UNCHANGED <<idx, device, conns, is_connected, file, stored_data,
                   factory_id_bytes, exc, ops, started, persisted,
                   sessionFile>>
    /\ UNCHANGED telemetry

\* variant: the disconnect is at the end of the block instead of in
\* __aexit__, so a propagating exception skips it
AExit_keeps ==
    /\ pc = "aexit"
    /\ IF exc
       THEN /\ pc' = "except"
            /\ UNCHANGED <<idx, result, conns, is_connected, ops>>
       ELSE /\ conns' = conns \ {device}
            /\ is_connected' = FALSE
            /\ \E disc_ok \in BOOLEAN :
                 /\ ops' = Append(ops, Op("disconnect", disc_ok, <<>>))
                 /\ IF ~disc_ok
                    THEN pc' = "except" /\ UNCHANGED <<idx, result>>
                    ELSE Return(result)
    /\ UNCHANGED <<device, file, stored_data, factory_id_bytes, exc, started,
                   persisted, sessionFile>>
    /\ UNCHANGED telemetry

\* __aexit__ of the with block: client.disconnect(), which may itself raise;
\* then the return completes or the exception reaches run()
AExit ==
    /\ pc = "aexit"
    /\ conns' = conns \ {device}
    /\ is_connected' = FALSE
    /\ \E disc_ok \in BOOLEAN :
         /\ ops' = Append(ops, Op("disconnect", disc_ok, <<>>))
         /\ IF exc \/ ~disc_ok
            THEN pc' = "except" /\ UNCHANGED <<idx, result>>
            ELSE Return(result)
    /\ UNCHANGED <<device, file, stored_data, factory_id_bytes, exc, started,
                   persisted, sessionFile>>
    /\ UNCHANGED telemetry

-----------------------------------------------------------------------------
(* The handshake of process_device *)

\* truth value of stored_data.get(device.address)
EntryTruthy(e) == e # NoEntry /\ e # <<>>

\* variant: the stored entry is not used
StoredId_dropped(e) == NoneBytes

\* the credential decoded from the looked-up entry: bytes.fromhex of a
\* non-empty string, None when there is no entry or fromhex raises ValueError
StoredId(e) ==
    IF EntryTruthy(e) /\ ~FromHexRaises(e) THEN FromHex(e) ELSE NoneBytes

\* stored_data = load_device_data(); device_id_hex = stored_data.get(address);
\* factory_id_bytes = bytes.fromhex(device_id_hex).  A document that is not
\* an object, or an entry that is not a string, raises out of the with block.
Lookup ==
    /\ pc = "lookup"
    /\ \E io_ok \in BOOLEAN :
         LET data == load_device_data(file, io_ok)
             device_id_hex == data[device]
         IN  /\ ops' = Append(ops, Op("load", io_ok /\ file.kind # "corrupt", <<>>))
             /\ stored_data' = data
             /\ IF LoadNotDict(file, io_ok) \/ device_id_hex = NumEntry
                THEN /\ exc' = TRUE
                     /\ pc' = "aexit"
                     /\ UNCHANGED factory_id_bytes
                ELSE /\ factory_id_bytes' = StoredId(device_id_hex)
                     /\ pc' = IF Truthy(factory_id_bytes') THEN "write" ELSE "read_id"
                     /\ UNCHANGED exc
    /\ UNCHANGED <<idx, device, conns, is_connected, file, result, started, persisted, sessionFile>>
    /\ UNCHANGED telemetry

\* variant: an all-zero value is logged but kept in factory_id_bytes
ReadFactoryId_keeps_zeros ==
    /\ pc = "read_id"
    /\ \/ /\ ops' = Append(ops, Op("read_id", FALSE, <<>>))
          /\ UNCHANGED <<factory_id_bytes, stored_data, file, persisted>>
       \/ \E v \in CredValues :
            IF AllZero(v)
            THEN /\ ops' = Append(ops, Op("read_id", TRUE, v))
                 /\ factory_id_bytes' = v
                 /\ UNCHANGED <<stored_data, file, persisted>>
            ELSE \E outcome \in SaveOutcomes :
                 /\ factory_id_bytes' = v
                 /\ stored_data' = [stored_data EXCEPT ![device] = Hex(v)]
                 /\ file' = save_device_data(file, stored_data', outcome)
                 /\ persisted' = IF outcome = "ok"
                                 THEN [persisted EXCEPT ![device] = v]
                                 ELSE persisted
                 /\ ops' = ops \o <<Op("read_id", TRUE, v), Op("save", outcome = "ok", v)>>
    /\ pc' = "write"
    /\ UNCHANGED <<idx, device, conns, is_connected, result, exc, started,
                   sessionFile>>
    /\ UNCHANGED telemetry

\* variant: the new factory id is put in stored_data but save_device_data is
\* not called
ReadFactoryId_no_save ==
    /\ pc = "read_id"
    /\ \/ /\ ops' = Append(ops, Op("read_id", FALSE, <<>>))
          /\ UNCHANGED <<factory_id_bytes, stored_data>>
       \/ \E v \in CredValues :
            /\ ops' = Append(ops, Op("read_id", TRUE, v))
            /\ IF AllZero(v)
               THEN factory_id_bytes' = NoneBytes /\ UNCHANGED stored_data
               ELSE /\ factory_id_bytes' = v
                    /\ stored_data' = [stored_data EXCEPT ![device] = Hex(v)]
    /\ pc' = "write"
    /\ UNCHANGED <<idx, device, conns, is_connected, file, persisted, result,
                   exc, started, sessionFile>>
    /\ UNCHANGED telemetry

\* variant: save_device_data has no try/except, a failed save raises out of
\* the with block
ReadFactoryId_save_raises ==
    /\ pc = "read_id"
    /\ \/ /\ ops' = Append(ops, Op("read_id", FALSE, <<>>))
          /\ pc' = "write"
          /\ UNCHANGED <<factory_id_bytes, stored_data, file, persisted, exc>>
       \/ \E v \in CredValues :
            IF AllZero(v)
            THEN /\ ops' = Append(ops, Op("read_id", TRUE, v))
                 /\ factory_id_bytes' = NoneBytes
                 /\ pc' = "write"
                 /\ UNCHANGED <<stored_data, file, persisted, exc>>
            ELSE \E outcome \in SaveOutcomes :
                 /\ factory_id_bytes' = v
                 /\ stored_data' = [stored_data EXCEPT ![device] = Hex(v)]
                 /\ file' = save_device_data(file, stored_data', outcome)
                 /\ persisted' = IF outcome = "ok"
                                 THEN [persisted EXCEPT ![device] = v]
                                 ELSE persisted
                 /\ ops' = ops \o <<Op("read_id", TRUE, v), Op("save", outcome = "ok", v)>>
                 /\ exc' = (outcome # "ok")
                 /\ pc' = IF outcome = "ok" THEN "write" ELSE "aexit"
    /\ UNCHANGED <<idx, device, conns, is_connected, result, started, sessionFile>>
    /\ UNCHANGED telemetry


\* if not factory_id_bytes: read FACTORY_RESET_ID_UUID without a handshake;
\* an all-zero value is dropped, any other value is stored and saved at once;
\* a read that raises is logged
ReadFactoryId ==
    /\ pc = "read_id"
    /\ \/ /\ ops' = Append(ops, Op("read_id", FALSE, <<>>))
          /\ UNCHANGED <<factory_id_bytes, stored_data, file, persisted>>
       \/ \E v \in CredValues :
            IF AllZero(v)
            THEN /\ ops' = Append(ops, Op("read_id", TRUE, v))
                 /\ factory_id_bytes' = NoneBytes
                 /\ UNCHANGED <<stored_data, file, persisted>>
            ELSE \E outcome \in SaveOutcomes :
                 /\ factory_id_bytes' = v
                 /\ stored_data' = [stored_data EXCEPT ![device] = Hex(v)]
                 /\ file' = save_device_data(file, stored_data', outcome)
                 /\ persisted' = IF outcome = "ok"
                                 THEN [persisted EXCEPT ![device] = v]
                                 ELSE persisted
                 /\ ops' = ops \o <<Op("read_id", TRUE, v), Op("save", outcome = "ok", v)>>
    /\ pc' = "write"
    /\ UNCHANGED <<idx, device, conns, is_connected, result, exc, started, sessionFile>>
    /\ UNCHANGED telemetry

\* variant: a failed handshake write is logged without the return
WriteFactoryId_goes_on ==
    /\ pc = "write"
    /\ IF Truthy(factory_id_bytes)
       THEN /\ \E ok \in BOOLEAN :
                 ops' = Append(ops, Op("write_id", ok, factory_id_bytes))
            /\ pc' = "read_rt"
            /\ UNCHANGED result
       ELSE /\ pc' = "aexit"
            /\ result' = "no_factory_id"
            /\ UNCHANGED ops
    /\ UNCHANGED <<idx, device, conns, is_connected, file, stored_data,
                   factory_id_bytes, exc, started, persisted, sessionFile>>
    /\ UNCHANGED telemetry

\* variant: a failed handshake write is attempted again with the same
\* credential instead of returning
WriteFactoryId_retry ==
    /\ pc = "write"
    /\ IF Truthy(factory_id_bytes)
       THEN \E ok \in BOOLEAN :
              /\ ops' = Append(ops, Op("write_id", ok, factory_id_bytes))
              /\ pc' = IF ok THEN "read_rt" ELSE "write"
              /\ UNCHANGED result
       ELSE /\ pc' = "aexit"
            /\ result' = "no_factory_id"
            /\ UNCHANGED ops
    /\ UNCHANGED <<idx, device, conns, is_connected, file, stored_data,
                   factory_id_bytes, exc, started, persisted,
                   sessionFile>>
    /\ UNCHANGED telemetry


\* if factory_id_bytes: write it back to FACTORY_RESET_ID_UUID, a failed
\* write returns; else: no factory id could be obtained, return
WriteFactoryId ==
    /\ pc = "write"
    /\ IF Truthy(factory_id_bytes)
       THEN \E ok \in BOOLEAN :
              /\ ops' = Append(ops, Op("write_id", ok, factory_id_bytes))
              /\ IF ok
                 THEN pc' = "read_rt" /\ UNCHANGED result
                 ELSE pc' = "aexit" /\ result' = "handshake_write_failed"
       ELSE /\ pc' = "aexit"
            /\ result' = "no_factory_id"
            /\ UNCHANGED ops
    /\ UNCHANGED <<idx, device, conns, is_connected, file, stored_data,
                   factory_id_bytes, exc, started, persisted,
                   sessionFile>>
    /\ UNCHANGED telemetry

\* read REAL_TIME_INDICATION_UUID, parse the frame, then publish_data and
\* publish_discovery; an exception of any of them is caught and logged, and
\* skips the rest
ReadRealTime ==
    /\ pc = "read_rt"
    /\ \/ /\ ops' = Append(ops, Op("read_rt", FALSE, <<>>))
          /\ result' = "read_failed"
          /\ UNCHANGED <<rt_data, parsed_data>>
       \/ \E frame \in TelemetryFrames :
            /\ rt_data' = frame
            /\ parsed_data' = parse_real_time_data(frame)
            /\ \/ /\ ops' = ops \o <<Op("read_rt", TRUE, <<>>),
                                     PubOp(FALSE, StateTopic(device))>>
                  /\ result' = "publish_failed"
               \/ \E disc_ok \in BOOLEAN :
                    /\ ops' = ops \o <<Op("read_rt", TRUE, <<>>),
                                       PubOp(TRUE, StateTopic(device)),
                                       Op("discovery", disc_ok, <<>>)>>
                    /\ result' = "published"
    /\ pc' = "aexit"
    /\ UNCHANGED layout
    /\ UNCHANGED <<idx, device, conns, is_connected, file, stored_data,
                   factory_id_bytes, exc, started, persisted,
                   sessionFile>>

-----------------------------------------------------------------------------

Next ==
    \/ MqttConnect
    \/ ForNext
    \/ ForDone
    \/ Sleep
    \/ RunCatch
    \/ FindDevice
    \/ Connect
    \/ CheckConnected
    \/ Lookup
    \/ ReadFactoryId
    \/ WriteFactoryId
    \/ ReadRealTime
    \/ AExit

Spec == Init /\ [][Next]_vars

\* one cooperative flow whose awaited operations (scan, connect, read, write,
\* disconnect, sleep) all return or raise in the end: a step that can be
\* taken is taken
FairSpec == Spec /\ WF_vars(Next)

-----------------------------------------------------------------------------
(* The codec on its own: parse_real_time_data applied to any frame *)

CodecInit ==
    /\ pc = "codec"
    /\ idx = 1
    /\ device = NoDevice
    /\ conns = {}
    /\ is_connected = FALSE
    /\ file = DictFile(EmptyDict)
    /\ stored_data = EmptyDict
    /\ factory_id_bytes = NoneBytes
    /\ result = "none"
    /\ exc = FALSE
    /\ ops = <<>>
    /\ started = <<>>
    /\ persisted = [a \in Addrs |-> NoneBytes]
    /\ sessionFile = file
    /\ rt_data \in Frames
    /\ parsed_data = NotParsed
    /\ layout \in Layouts

\* parsed_data = self.parse_real_time_data(data)
Decode ==
    /\ pc = "codec"
    /\ parsed_data' = parse_real_time_data(rt_data)
    /\ pc' = "decoded"
    /\ UNCHANGED <<idx, device, conns, is_connected, file, stored_data,
                   factory_id_bytes, result, exc, ops, started, persisted,
                   sessionFile, rt_data, layout>>

CodecNext == Decode

CodecSpec == CodecInit /\ [][CodecNext]_vars

TypeOK ==
    /\ pc \in {"start", "exited", "for", "sleep", "except", "find", "connect",
               "check", "lookup", "read_id", "write", "read_rt", "aexit"}
    /\ idx \in 1..(Len(DEVICES) + 1)
    /\ device \in Addrs \cup {NoDevice}
    /\ conns \subseteq Addrs
    /\ file.kind \in {"dict", "corrupt", "nondict"}
    /\ factory_id_bytes \in CredValues \cup {NoneBytes}

-----------------------------------------------------------------------------
(* Properties *)

\* a byte string with no non-zero byte, the empty one included
ZeroBytes(b) == \A i \in DOMAIN b : b[i] = 0

HasOp(name) == \E i \in DOMAIN ops : ops[i].op = name
HasOkOp(name) == \E i \in DOMAIN ops : ops[i].op = name /\ ops[i].ok
HasFailedOp(name) == \E i \in DOMAIN ops : ops[i].op = name /\ ~ops[i].ok

\* a session is between the call of process_device and its return or raise
InSession == pc \in {"find", "connect", "check", "lookup", "read_id", "write",
                     "read_rt", "aexit"}

\* C1: a failure of one device's session never ends the scheduler loop and
\* never skips a later device: the for loop is at device k after exactly
\* k - 1 sessions were started, the sleep is reached only with one session
\* started for every configured device, and run() is left only before the
\* first session (broker connect failure).
C1_FailureIsolated ==
    /\ pc = "for" => Len(started) = idx - 1
    /\ pc = "except" => Len(started) = idx
    /\ pc = "sleep" => started = DEVICES
    /\ pc = "exited" => started = <<>> /\ ops = <<>>

\* the session of the second device is running right after the session of
\* the first one ended with an exception
C1_Witness ==
    /\ pc = "find"
    /\ idx = 2
    /\ started = DEVICES
    /\ result = "exception"

\* C2: outside the with block of a session no BLE connection is held: when
\* the session has ended (return or exception), when the next session starts
\* and during the inter-cycle sleep.
C2_ConnectionReleased ==
    pc \in {"start", "exited", "for", "sleep", "except", "find", "connect"} => conns = {}

\* an exception raised inside the connection scope has reached run(), after
\* a successful connect
C2_Witness ==
    /\ pc = "except"
    /\ exc
    /\ HasOkOp("connect")
    /\ HasOp("disconnect")

\* C3: telemetry is read (and published) only after a successful write of the
\* credential in the same session; after a failed write the session ends
\* with neither.
C3_AuthBeforeTelemetry ==
    /\ \A j \in DOMAIN ops :
         ops[j].op \in {"read_rt", "publish", "discovery"} =>
           \E i \in 1..(j - 1) :
             ops[i].op = "write_id" /\ ops[i].ok /\ ops[i].val # <<>>
    /\ HasFailedOp("write_id") =>
         /\ ~HasOp("read_rt") /\ ~HasOp("publish") /\ ~HasOp("discovery")
         /\ pc \in {"aexit", "except", "for", "sleep"}

\* a session ended after its credential write failed
C3_Witness ==
    /\ pc = "for"
    /\ result = "handshake_write_failed"
    /\ HasFailedOp("write_id")

\* C4: a session in which the factory-id read returned an all-zero value (of
\* any length, the empty value included) does not save the store: the file
\* is as it was when the session started.
C4_ZeroNeverPersisted ==
    (\E i \in DOMAIN ops : ops[i].op = "read_id" /\ ops[i].ok /\ ZeroBytes(ops[i].val)) =>
      ~HasOp("save") /\ file = sessionFile

\* a session ended after reading the empty value from the device
C4_Witness ==
    /\ pc = "for"
    /\ \E i \in DOMAIN ops : ops[i].op = "read_id" /\ ops[i].ok /\ ops[i].val = <<>>

\* C5: no all-zero credential is ever written to the authentication
\* characteristic, whatever the store held at start.
C5_ZeroNeverWritten ==
    \A i \in DOMAIN ops : ops[i].op = "write_id" => ~ZeroBytes(ops[i].val)

\* the session is past the store lookup and the unauthenticated read
PastHandshakeRead == pc \in {"write", "read_rt"}

\* the credential for the session's address was saved by an earlier session
PersistedEarlier ==
    /\ device # NoDevice
    /\ persisted[device] # NoneBytes
    /\ ~HasOp("save")

\* C6 as stated: every session after the one that persisted a credential for
\* the address has exactly these bytes in hand without an unauthenticated read.
C6_AlwaysReused ==
    (PastHandshakeRead /\ PersistedEarlier) =>
      factory_id_bytes = persisted[device] /\ ~HasOp("read_id")

\* C6 amended: a later session whose lookup finds an entry for the address
\* finds the hex of the persisted bytes, has exactly these bytes in hand and
\* made no unauthenticated read; a read never precedes the store lookup.
C6_ReusedWhenFound ==
    /\ (PastHandshakeRead /\ PersistedEarlier /\ stored_data[device] # NoEntry) =>
         /\ stored_data[device] = Hex(persisted[device])
         /\ factory_id_bytes = persisted[device]
         /\ ~HasOp("read_id")
    /\ \A j \in DOMAIN ops :
         ops[j].op = "read_id" => \E i \in 1..(j - 1) : ops[i].op = "load"
    /\ \A j \in DOMAIN ops :
         (ops[j].op = "write_id" /\ PersistedEarlier /\ ~HasOp("read_id")) =>
           ops[j].val = persisted[device]

\* a later session wrote the persisted credential to the device
C6_Witness ==
    /\ PersistedEarlier
    /\ ~HasOp("read_id")
    /\ \E j \in DOMAIN ops :
         ops[j].op = "write_id" /\ ops[j].ok /\ ops[j].val = persisted[device]

\* the entry the store held for the session's address when it was looked up
LookedUp == sessionFile.data[device]

\* C7 as stated: a session that finds any entry for its address in the store
\* leaves the store as it was.
C7_EntryNeverReplaced ==
    (device # NoDevice /\ sessionFile.kind = "dict" /\ LookedUp # NoEntry) =>
      file = sessionFile

\* C7 amended: a session whose lookup succeeds and finds an entry that
\* decodes to a non-empty credential never saves the store, whatever happens
\* afterwards.
C7_ValidEntryKept ==
    (/\ device # NoDevice
     /\ HasOkOp("load")
     /\ sessionFile.kind = "dict"
     /\ EntryTruthy(LookedUp) /\ LookedUp # NumEntry /\ ~FromHexRaises(LookedUp)) =>
      file = sessionFile /\ ~HasOp("save") /\ ~HasOp("read_id")

\* a session ended with the stored credential rejected by the device
C7_Witness ==
    /\ pc = "for"
    /\ HasOkOp("load")
    /\ sessionFile.kind = "dict"
    /\ EntryTruthy(LookedUp) /\ LookedUp # NumEntry /\ ~FromHexRaises(LookedUp)
    /\ HasFailedOp("write_id")

\* the unauthenticated read of this session failed or returned zeros
ReadGaveNothing ==
    \E i \in DOMAIN ops :
      ops[i].op = "read_id" /\ (~ops[i].ok \/ ZeroBytes(ops[i].val))

\* C8: after an unauthenticated read that failed or returned zeros, nothing
\* is written to the device, telemetry is not read, nothing is published,
\* the store is unchanged and the session ends as failed.
C8_NoCredentialFails ==
    ReadGaveNothing =>
      /\ ~HasOp("write_id") /\ ~HasOp("read_rt") /\ ~HasOp("publish")
      /\ ~HasOp("discovery") /\ ~HasOp("save") /\ file = sessionFile
      /\ pc \in {"write", "aexit", "except", "for", "sleep"}
      /\ pc \in {"for", "sleep"} => result \in {"no_factory_id", "exception"}

\* a session ended for want of a factory id after the device returned zeros
C8_Witness ==
    /\ pc = "for"
    /\ result = "no_factory_id"
    /\ \E i \in DOMAIN ops :
         ops[i].op = "read_id" /\ ops[i].ok /\ ops[i].val = <<0>>

\* C9 as stated: whenever a freshly read credential is written to the device
\* the store already holds it.
C9_InStoreAtWrite ==
    \A j \in DOMAIN ops :
      (ops[j].op = "write_id" /\ HasOp("read_id")) =>
        file.kind = "dict" /\ file.data[device] = Hex(ops[j].val)

\* C9 amended: a non-zero value read from the device is saved at once, before
\* the handshake write; when that save succeeds the store holds the
\* credential for the rest of the session, whatever fails later.
C9_SavedBeforeWrite ==
    /\ \A i \in DOMAIN ops :
         (ops[i].op = "read_id" /\ ops[i].ok /\ ~ZeroBytes(ops[i].val)) =>
           /\ i + 1 \in DOMAIN ops
           /\ ops[i + 1].op = "save" /\ ops[i + 1].val = ops[i].val
    /\ \A j \in DOMAIN ops :
         (ops[j].op = "write_id" /\ HasOp("read_id")) =>
           \E i \in 1..(j - 1) : ops[i].op = "save" /\ ops[i].val = ops[j].val
    /\ \A i \in DOMAIN ops :
         (ops[i].op = "save" /\ ops[i].ok) =>
           file.kind = "dict" /\ file.data[device] = Hex(ops[i].val)

\* a session ended with the fresh credential saved and then rejected
C9_Witness ==
    /\ pc = "for"
    /\ HasOkOp("save")
    /\ HasFailedOp("write_id")
    /\ file.kind = "dict" /\ file.data[device] = Hex(factory_id_bytes)

\* C10: at most one connection is open, none when a session starts, and the
\* sessions of a cycle are started in the order of DEVICES, one per position
\* of the for loop.
C10_Sequential ==
    /\ Cardinality(conns) <= 1
    /\ pc \in {"find", "connect"} => conns = {}
    /\ InSession => Len(started) = idx /\ conns \subseteq {device}
    /\ Len(started) <= Len(DEVICES)
    /\ started = SubSeq(DEVICES, 1, Len(started))

\* the second session of a cycle holds the only connection, to another
\* device than the first session connected to
C10_Witness ==
    /\ pc = "lookup"
    /\ idx = 2
    /\ started = DEVICES
    /\ conns = {A2}

\* C11: the sleep is reached only with exactly one session started for each
\* configured device, in order, and as long as the awaited operations return
\* the loop never stops: from the for loop, a session for every configured
\* device is started again and again.
C11_RepeatsForever ==
    /\ [](pc = "sleep" => started = DEVICES)
    /\ \A k \in 1..Len(DEVICES) :
         (pc = "for") ~> (pc = "find" /\ idx = k /\ Len(started) = k)

\* the first device is polled in a later cycle: a credential saved by an
\* earlier session is on record when its session starts
C11_Witness ==
    /\ pc = "find"
    /\ idx = 1
    /\ ops = <<>>
    /\ persisted[A1] # NoneBytes

\* C12 as stated: run() never returns, whatever fails after the configuration
\* was loaded.
C12_NeverExits == pc # "exited"

\* C12 amended: run() returns only from the broker connect at startup; every
\* exception that leaves process_device is caught and the for loop goes on.
C12_OnlyBrokerFailureEnds ==
    [][/\ pc' = "exited" => pc = "start"
       /\ pc = "except" => pc' = "for" /\ idx' = idx + 1]_vars

\* the second session of a cycle starts after a publish error, with the
\* store unreadable
C12_Witness ==
    /\ pc = "find"
    /\ idx = 2
    /\ result = "publish_failed"
    /\ file.kind = "corrupt"

\* positions of the calls of mqtt_client.publish on a state topic
StatePublishes == {i \in DOMAIN ops : ops[i].op = "publish"}

\* the state topic of each thermostat: its address without the colons
TopicOf(a) ==
    IF a = A1 THEN <<"ensto_bridge/", "A", "1", "/state">>
    ELSE <<"ensto_bridge/", "A", "2", "/state">>

\* C13: a session calls publish on the state topic exactly once when its
\* telemetry read succeeded and never otherwise, and the topic is the one of
\* the device's address with the colons removed.
C13_PublishOncePerRead ==
    /\ Cardinality(StatePublishes) <= 1
    /\ HasOkOp("read_rt") <=> StatePublishes # {}
    /\ \A i \in StatePublishes :
         /\ ops[i].topic = TopicOf(device)
         /\ \E j \in 1..(i - 1) : ops[j].op = "read_rt" /\ ops[j].ok

\* a session for the thermostat found by name ended after publishing its
\* reading
C13_Witness ==
    /\ pc = "for"
    /\ idx = 3
    /\ device = A2
    /\ result = "published"
    /\ \E i \in StatePublishes : ops[i].ok /\ ops[i].topic = TopicOf(A2)

Abs(x) == IF x < 0 THEN -x ELSE x

\* C14: the codec never raises; a buffer shorter than the minimum frame
\* length of 10 bytes gives the empty Reading, a buffer of 10 bytes or more
\* gives a Reading with all four fields.
C14_TotalDecode ==
    pc = "decoded" =>
      /\ ~parsed_data.raised
      /\ Len(rt_data) < 10 => parsed_data.fields = {}
      /\ Len(rt_data) >= 10 =>
           parsed_data.fields = {"target_temperature", "room_temperature",
                                 "floor_temperature", "relay_active"}

\* a frame long enough to be decoded but too short to hold the relay byte
\* was decoded to four fields
C14_Witness ==
    /\ pc = "decoded"
    /\ Len(rt_data) = 12
    /\ parsed_data.fields = AllFields
    /\ ~parsed_data.relay_active

\* C15: a frame of 14 bytes or more that carries raw at offset 0 (4 bytes,
\* little-endian), room at 4 and floor at 6 (2 bytes, signed) and r at 13
\* decodes to room / 10, floor / 10, relay = (r # 0) and to the tenth of a
\* degree nearest to 5.0 + (raw - 13038) * 30 / 115160; the sample decodes to
\* 20.0, 21.5, 19.8 and relay on.
C15_LayoutA ==
    pc = "decoded" =>
      /\ \A raw \in TargetRaws, room \in RoomRaws, floor \in FloorRaws, r \in RelayBytes :
           (/\ Len(rt_data) >= 14
            /\ rt_data = SubSeq(FrameOf(raw, room, floor, r), 1, Len(rt_data))) =>
             /\ parsed_data.room_temperature = room
             /\ parsed_data.floor_temperature = floor
             /\ parsed_data.relay_active = (r # 0)
             /\ 2 * Abs((parsed_data.target_temperature - 50) * 5758 - (raw - 13038) * 15) <= 5758
      /\ (/\ Len(rt_data) >= 14
          /\ rt_data = SubSeq(FrameOf(70618, 215, 198, 1), 1, Len(rt_data))) =>
           /\ parsed_data.target_temperature = 200
           /\ parsed_data.room_temperature = 215
           /\ parsed_data.floor_temperature = 198
           /\ parsed_data.relay_active

\* the sample frame was decoded
C15_Witness ==
    /\ pc = "decoded"
    /\ rt_data = <<218, 19, 1, 0, 215, 0, 198, 0, 0, 0, 0, 0, 0, 1>>
    /\ parsed_data.target_temperature = 200

\* C16: a frame sent by Layout B firmware decodes to the empty Reading when
\* it is shorter than 20 bytes and otherwise to four fields with the relay
\* flag taken from the byte at offset 7.
C16_LayoutB ==
    (pc = "decoded" /\ layout = "B") =>
      /\ Len(rt_data) < 20 => parsed_data.fields = {}
      /\ Len(rt_data) >= 20 =>
           /\ parsed_data.fields = AllFields
           /\ parsed_data.relay_active = (rt_data[8] # 0)

\* number of calls of a collaborator operation in the current session
OpCount(name) == Cardinality({i \in DOMAIN ops : ops[i].op = name})

BleSteps == {"scan", "connect", "read_id", "write_id", "read_rt"}

\* C17: nothing is retried inside a session: a session makes at most one
\* discovery scan, one connect, one unauthenticated read of the factory id,
\* one write of the credential and one telemetry read, and once one of them
\* has failed the session makes no further call of it.
C17_NoRetry ==
    /\ \A name \in BleSteps : OpCount(name) <= 1
    /\ HasFailedOp("scan") => pc \in {"except", "for", "sleep"}
    /\ HasFailedOp("connect") => pc \in {"except", "for", "sleep"}
    /\ HasFailedOp("write_id") => pc \in {"aexit", "except", "for", "sleep"}
    /\ HasFailedOp("read_rt") => pc \in {"aexit", "except", "for", "sleep"}
    /\ HasFailedOp("read_id") => pc \notin {"find", "connect", "check", "lookup", "read_id"}

C17_Witness ==
    /\ pc = "for"
    /\ result = "handshake_write_failed"
    /\ HasOkOp("read_id")
    /\ HasFailedOp("write_id")
    /\ OpCount("write_id") = 1

\* the store entry is the hex of a non-empty credential
DecodableEntry(e) ==
    /\ e \notin {NoEntry, NumEntry, <<>>}
    /\ Len(e) % 2 = 0
    /\ \A k \in DOMAIN e : IsHexDigit(e[k])

\* after a failed save the session goes on: it writes the credential it read
\* to the device, a successful write is followed by the telemetry read, and
\* a successful telemetry read by the publish
GoesOnAfterFailedSave ==
    \A i \in DOMAIN ops :
      (ops[i].op = "save" /\ ~ops[i].ok) =>
        /\ ~exc
        /\ ops[i].val # <<>>
        /\ IF i = Len(ops)
           THEN pc = "write" /\ factory_id_bytes = ops[i].val
           ELSE /\ ops[i + 1].op = "write_id"
                /\ ops[i + 1].val = ops[i].val
                /\ ops[i + 1].ok =>
                     IF i + 1 = Len(ops)
                     THEN pc = "read_rt"
                     ELSE /\ ops[i + 2].op = "read_rt"
                          /\ ops[i + 2].ok =>
                               (i + 3 <= Len(ops) /\ ops[i + 3].op = "publish")

\* C18 as stated: a failed save is not fatal to the session, and the store
\* then holds no entry for the session's address.
C18_NoEntryAfterFailedSave ==
    HasFailedOp("save") =>
      /\ GoesOnAfterFailedSave
      /\ file.kind = "dict" => file.data[device] = NoEntry

\* C18 amended: a failed save is not fatal to the session; the store is then
\* as it was before the session or truncated, so it holds no new entry for
\* the address; a session reaches the handshake write without the
\* unauthenticated read only with a store that held a decodable entry for
\* its address when it was looked up.
C18_SaveFailureNotFatal ==
    /\ HasFailedOp("save") =>
         /\ GoesOnAfterFailedSave
         /\ file \in {sessionFile, CorruptFile}
    /\ (pc \in {"write", "read_rt"} /\ ~HasOp("read_id")) =>
         sessionFile.kind = "dict" /\ DecodableEntry(LookedUp)

\* a session published after its save failed, over a store holding an entry
\* for the address that does not decode
C18_Witness ==
    /\ pc = "for"
    /\ result = "published"
    /\ HasFailedOp("save")
    /\ file = sessionFile
    /\ file.kind = "dict"
    /\ file.data[device] = <<"z", "z">>

\* the outcomes a session can end in
Outcomes == {"published", "publish_failed", "read_failed", "handshake_write_failed",
             "no_factory_id", "not_connected", "not_found", "exception"}

\* C19: every started device session runs to completion: it ends, after
\* publishing or in one of the failure outcomes, with its connection
\* released, and the scheduler then goes on to the next device or to the
\* sleep.
C19_SessionCompletes ==
    /\ \A k \in 1..Len(DEVICES) :
         (InSession /\ idx = k) ~>
           (pc = "for" /\ idx = k + 1 /\ conns = {} /\ result \in Outcomes)
    /\ \A k \in 1..Len(DEVICES) :
         (pc = "for" /\ idx = k + 1) ~>
           IF k < Len(DEVICES) THEN pc = "find" /\ idx = k + 1 ELSE pc = "sleep"

\* the second session of a cycle ended after publishing, its connection
\* closed, and the scheduler is about to reach the sleep
C19_Witness ==
    /\ pc = "for"
    /\ idx = Len(DEVICES) + 1
    /\ result = "published"
    /\ HasOkOp("connect")
    /\ HasOp("disconnect")
    /\ conns = {}

\* C20: persisting a freshly read credential for the session's address
\* leaves the store entries of every other address as they were before the
\* session, also when the load of the store failed in that session.
C20_OtherEntriesKept ==
    (HasOkOp("save") /\ sessionFile.kind = "dict") =>
      /\ file.kind = "dict"
      /\ file.data[device] = Hex(factory_id_bytes)
      /\ \A a \in Addrs \ {device} : file.data[a] = sessionFile.data[a]

====
